---------------------------- MODULE Spec2Model ----------------------------
(***************************************************************************)
(* Content-Creation-Agency: the analytic tools of the agency.              *)
(*                                                                         *)
(*   TrendAnalyzer    trend_analyzer/tools/trend_analyzer.py               *)
(*   ContentOptimizer content_manager/tools/content_optimizer.py           *)
(*                                                                         *)
(* Floating-point results are modelled exactly: a float is a record        *)
(*   [k |-> "num",  n, d]   the rational n/d in lowest terms, d > 0        *)
(*   [k |-> "sqrt", n, d]   the square root of the rational n/d            *)
(*   [k |-> "inf",  n, d]   +inf (n = 1) or -inf (n = -1)                  *)
(*   [k |-> "nan",  n, d]   not-a-number                                   *)
(* numpy scalar division never raises: x/0 is nan for x = 0 and +-inf      *)
(* otherwise (a RuntimeWarning only).                                      *)
(***************************************************************************)
EXTENDS Integers, Sequences, FiniteSets, TLC

VARIABLES
    \* TrendAnalyzer
    keywords,      \* self.keywords
    provider,      \* what interest_over_time() holds for each keyword
    i,             \* the batch loop's index, range(0, len(keywords), 5)
    requests,      \* number of build_payload calls so far
    payloads,      \* history: the keyword list of each build_payload call
    results,       \* the results dictionary of run
    tpc,           \* position in TrendAnalyzer.run: "loop" | "returned"
    \* ContentOptimizer._optimize_seo
    content,       \* the content bundle handed to _optimize_seo
    seo_analysis,  \* the seo_analysis dictionary
    seo_score,     \* local seo_score
    improvements,  \* local improvements
    spc,           \* position in _optimize_seo
    \* ContentOptimizer._count_syllables
    word,                \* the argument
    lowered,             \* word after word = word.lower()
    count,               \* local count
    prev_char_is_vowel,  \* local prev_char_is_vowel
    ci,                  \* characters of the loop already seen
    sylpc,               \* position in _count_syllables
    \* SentimentAnalyzer.run
    include_replies,  \* the include_replies field
    comments_data,  \* comments collected so far
    sentiments,     \* per-comment sentiment records
    all_sentences,  \* sentences of all comments
    topics,         \* extracted topic phrases
    sa_results,     \* the returned value
    sapc,           \* position in run
    \* ChannelAnalyzer.run
    include_comments,  \* the include_comments field
    video_stats,       \* the video records collected so far
    ch_df,             \* df after the derived columns were added
    ch_results,        \* the returned value
    chpc,              \* position in run
    \* CompetitorAnalyzer.run
    competitor_channels,  \* the competitor_channels field
    min_views,            \* the min_views field
    cp_i,                 \* channels of the loop already visited
    cp_results,           \* results
    cp_trace,             \* history: what each pass of the loop did
    cppc,                 \* position in run
    \* ContentOptimizer.run
    run_content,   \* the content field
    clock,         \* the system clock, in ticks
    run_results    \* the values returned by the calls of run so far

trendVars == <<keywords, provider, i, requests, payloads, results, tpc>>
seoVars == <<content, seo_analysis, seo_score, improvements, spc>>
syllVars == <<word, lowered, count, prev_char_is_vowel, ci, sylpc>>
sentVars == <<include_replies, comments_data, sentiments, all_sentences, topics, sa_results, sapc>>
chanVars == <<include_comments, video_stats, ch_df, ch_results, chpc>>
compVars == <<competitor_channels, min_views, cp_i, cp_results, cp_trace, cppc>>
runVars == <<run_content, clock, run_results>>

\* the state of the tools modelled after the first two
extVars == <<syllVars, sentVars, chanVars, compVars, runVars>>

vars == <<trendVars, seoVars, extVars>>

SyllIdle ==
    /\ word = <<>>
    /\ lowered = <<>>
    /\ count = 0
    /\ prev_char_is_vowel = FALSE
    /\ ci = 0
    /\ sylpc = "idle"

SentIdle ==
    /\ include_replies = FALSE
    /\ comments_data = <<>>
    /\ sentiments = <<>>
    /\ all_sentences = <<>>
    /\ topics = <<>>
    /\ sa_results = <<>>
    /\ sapc = "idle"

ChanIdle ==
    /\ include_comments = FALSE
    /\ video_stats = <<>>
    /\ ch_df = <<>>
    /\ ch_results = <<>>
    /\ chpc = "idle"

CompIdle ==
    /\ competitor_channels = <<>>
    /\ min_views = 0
    /\ cp_i = 0
    /\ cp_results = <<>>
    /\ cp_trace = <<>>
    /\ cppc = "idle"

RunIdle ==
    /\ run_content = <<>>
    /\ clock = 0
    /\ run_results = <<>>

ExtIdle == SyllIdle /\ SentIdle /\ ChanIdle /\ CompIdle /\ RunIdle

---------------------------------------------------------------------------
(* Bounds of the model *)

\* longest time series handed to the statistics block
MaxLen == 4
\* longest word handed to _count_syllables
MaxWord == 4
\* largest interest score of a sample (samples are 0..MaxVal)
MaxVal == 4

---------------------------------------------------------------------------
(* Exact arithmetic standing for numpy float64 *)

Abs(a) == IF a < 0 THEN -a ELSE a

Sign(a) == IF a < 0 THEN -1 ELSE IF a = 0 THEN 0 ELSE 1

RECURSIVE GCD(_, _)
GCD(a, b) == IF b = 0 THEN a ELSE GCD(b, a % b)

NaN == [k |-> "nan", n |-> 0, d |-> 0]

Inf(s) == [k |-> "inf", n |-> s, d |-> 0]

\* the rational a/b, b # 0, in lowest terms with a positive denominator
Rat(a, b) ==
    LET g == GCD(Abs(a), Abs(b))
        s == IF b < 0 THEN -1 ELSE 1
    IN  [k |-> "num", n |-> (s * a) \div g, d |-> (s * b) \div g]

IntF(a) == Rat(a, 1)

IsNum(f) == f.k = "num"

\* float division: a/0 is nan or +-inf, never an exception
FDiv(f, g) ==
    IF ~IsNum(f) \/ ~IsNum(g) THEN NaN
    ELSE IF g.n = 0 THEN (IF f.n = 0 THEN NaN ELSE Inf(Sign(f.n)))
    ELSE Rat(f.n * g.d, f.d * g.n)

FMul(f, g) ==
    IF f.k = "nan" \/ g.k = "nan" THEN NaN
    ELSE IF f.k = "inf" \/ g.k = "inf"
         THEN (IF f.n = 0 \/ g.n = 0 THEN NaN ELSE Inf(Sign(f.n) * Sign(g.n)))
    ELSE Rat(f.n * g.n, f.d * g.d)

FAdd(f, g) ==
    IF ~IsNum(f) \/ ~IsNum(g) THEN NaN
    ELSE Rat(f.n * g.d + g.n * f.d, f.d * g.d)

FSub(f, g) ==
    IF ~IsNum(f) \/ ~IsNum(g) THEN NaN
    ELSE Rat(f.n * g.d - g.n * f.d, f.d * g.d)

\* f < g on numbers; every comparison with nan is false
FLess(f, g) == IsNum(f) /\ IsNum(g) /\ f.n * g.d < g.n * f.d

IsSquare(a) == \E q \in 0..a : q * q = a

Root(a) == CHOOSE q \in 0..a : q * q = a

\* sqrt of a number >= 0: a rational when the radicand is a perfect square
FSqrt(f) ==
    IF ~IsNum(f) THEN NaN
    ELSE IF IsSquare(f.n) /\ IsSquare(f.d) THEN Rat(Root(f.n), Root(f.d))
    ELSE [k |-> "sqrt", n |-> f.n, d |-> f.d]

\* sqrt(f) / g for a number g
FSqrtDiv(s, g) ==
    IF s.k = "num" THEN FDiv(s, g)
    ELSE IF s.k # "sqrt" \/ ~IsNum(g) THEN NaN
    ELSE IF g.n = 0 THEN Inf(1)
    ELSE IF g.n < 0 THEN NaN
    ELSE FSqrt(Rat(s.n * g.d * g.d, s.d * g.n * g.n))

RECURSIVE Sum(_)
Sum(s) == IF s = <<>> THEN 0 ELSE Head(s) + Sum(Tail(s))

SumSq(s) == Sum([j \in 1..Len(s) |-> s[j] * s[j]])

\* x = np.arange(len(values))
arange(n) == [j \in 1..n |-> j - 1]

\* the samples in ascending order
RECURSIVE Sorted(_)
Sorted(s) ==
    IF s = <<>> THEN <<>>
    ELSE LET m == CHOOSE j \in 1..Len(s) : \A l \in 1..Len(s) : s[j] <= s[l]
         IN  <<s[m]>> \o Sorted([l \in 1..(Len(s) - 1) |->
                                     IF l < m THEN s[l] ELSE s[l + 1]])

ValueError == [k |-> "ValueError", n |-> 0, d |-> 0]

\* np.mean: nan for an empty array (a warning, no exception)
np_mean(values) ==
    IF Len(values) = 0 THEN NaN ELSE Rat(Sum(values), Len(values))

np_median(values) ==
    LET n == Len(values)
        s == Sorted(values)
    IN  IF n = 0 THEN NaN
        ELSE IF n % 2 = 1 THEN IntF(s[(n + 1) \div 2])
        ELSE Rat(s[n \div 2] + s[n \div 2 + 1], 2)

\* population variance, mean(|x - mean|^2)
np_var(values) ==
    LET n == Len(values)
    IN  IF n = 0 THEN NaN
        ELSE Rat(n * SumSq(values) - Sum(values) * Sum(values), n * n)

np_std(values) == FSqrt(np_var(values))

\* np.min / np.max raise ValueError on an empty array
np_min(values) ==
    IF Len(values) = 0 THEN ValueError
    ELSE IntF(CHOOSE v \in {values[j] : j \in 1..Len(values)} :
                  \A j \in 1..Len(values) : v <= values[j])

np_max(values) ==
    IF Len(values) = 0 THEN ValueError
    ELSE IntF(CHOOSE v \in {values[j] : j \in 1..Len(values)} :
                  \A j \in 1..Len(values) : v >= values[j])


---------------------------------------------------------------------------
(* TrendAnalyzer *)

\* batch size of the keyword loop
BatchSize == 5
\* number of future samples _predict_trend extrapolates
Horizon == 30
\* abs(r_value) < 0.3, as the rational RThreshNum / RThreshDen
RThreshNum == 3
RThreshDen == 10

\* scipy.stats.linregress(x, values), x = arange(len(values)).  It raises
\* ValueError on empty input; otherwise, from np.cov(x, values, bias=1):
\*   r = 0.0 if ssxm == 0.0 or ssym == 0.0 else ssxym / sqrt(ssxm * ssym)
\*   slope = ssxym / ssxm;  intercept = ymean - slope * xmean
\* The correlation coefficient is kept as its sign and its square.
linregress(x, values) ==
    LET n     == Len(values)
        sx    == Sum(x)
        sy    == Sum(values)
        ssxm  == Rat(n * SumSq(x) - sx * sx, n * n)
        ssym  == Rat(n * SumSq(values) - sy * sy, n * n)
        ssxym == Rat(n * Sum([j \in 1..n |-> x[j] * values[j]]) - sx * sy, n * n)
        slope == FDiv(ssxym, ssxm)
    IN  IF n = 0 THEN [raised |-> TRUE, slope |-> NaN, intercept |-> NaN,
                       rsign |-> 0, rsq |-> NaN]
        ELSE [raised    |-> FALSE,
              slope     |-> slope,
              intercept |-> FSub(Rat(sy, n), FMul(slope, Rat(sx, n))),
              rsign     |-> IF ssxm.n = 0 \/ ssym.n = 0 THEN 0 ELSE Sign(ssxym.n),
              rsq       |-> IF ssxm.n = 0 \/ ssym.n = 0 THEN IntF(0)
                            ELSE FDiv(FMul(ssxym, ssxym), FMul(ssxm, ssym))]

\* abs(r_value) < 0.3, decided on the squares
AbsRBelowThreshold(lr) ==
    FLess(FMul(lr.rsq, IntF(RThreshDen * RThreshDen)),
          IntF(RThreshNum * RThreshNum))

\* r_value < 0.3 in place of abs(r_value) < 0.3
_calculate_trend_direction_noabs(values) ==
    LET lr == linregress(arange(Len(values)), values)
    IN  IF lr.raised THEN "ValueError"
        ELSE IF lr.rsign <= 0 \/ AbsRBelowThreshold(lr) THEN "stable"
        ELSE IF FLess(IntF(0), lr.slope) THEN "increasing" ELSE "decreasing"

_calculate_trend_direction(values) ==
    LET lr == linregress(arange(Len(values)), values)
    IN  IF lr.raised THEN "ValueError"
        ELSE IF AbsRBelowThreshold(lr) THEN "stable"
        ELSE IF FLess(IntF(0), lr.slope) THEN "increasing" ELSE "decreasing"

_calculate_momentum(values) ==
    IF Len(values) < 2 THEN IntF(0)
    ELSE FMul(FDiv(IntF(values[Len(values)] - values[1]), IntF(values[1])),
              IntF(100))

\* the forecast clamped to the historical maximum
_predict_trend_clamped(values) ==
    LET n  == Len(values)
        lr == linregress(arange(n), values)
        hi == np_max(values)
        p(fx) == FAdd(FMul(lr.slope, IntF(fx)), lr.intercept)
    IN  IF lr.raised THEN <<ValueError>>
        ELSE [j \in 1..Horizon |->
                 IF FLess(hi, p(n + j - 1)) THEN hi ELSE p(n + j - 1)]

_predict_trend(values) ==
    LET n  == Len(values)
        lr == linregress(arange(n), values)
    IN  IF lr.raised THEN <<ValueError>>
        ELSE [j \in 1..Horizon |->
                 FAdd(FMul(lr.slope, IntF(n + j - 1)), lr.intercept)]

\* the statistics block of run (the dictionary literal)
trend_stats(trend_values) ==
    [mean            |-> np_mean(trend_values),
     median          |-> np_median(trend_values),
     std             |-> np_std(trend_values),
     min             |-> np_min(trend_values),
     max             |-> np_max(trend_values),
     trend_direction |-> _calculate_trend_direction(trend_values),
     volatility      |-> FSqrtDiv(np_std(trend_values), np_mean(trend_values)),
     momentum        |-> _calculate_momentum(trend_values)]

\* a slice that begins one position early: ks[at-1:at+5]
batch_positions_early(ks, at) ==
    {j \in 1..Len(ks) : at <= j /\ j <= at + BatchSize}

\* self.keywords[i:i+5], as the set of positions
batch_positions(ks, at) ==
    {j \in 1..Len(ks) : at < j /\ j <= at + BatchSize}

\* self.keywords[i:i+5], as the list build_payload receives
batch_list(ks, at) ==
    LET pos == batch_positions(ks, at)
    IN  [j \in 1..Cardinality(pos) |->
            ks[CHOOSE p \in pos : Cardinality({q \in pos : q < p}) = j - 1]]

\* interest_over_time() for a batch: one column per keyword of the batch
interest_over_time(batch) == [kw \in batch |-> provider[kw]]

\* DataFrame.empty: no column or no row
df_empty(df) == DOMAIN df = {} \/ \A kw \in DOMAIN df : Len(df[kw]) = 0

\* the dictionary d with d[kw] = v for every kw of upd
Update(d, upd) ==
    [kw \in DOMAIN d \cup DOMAIN upd |->
        IF kw \in DOMAIN upd THEN upd[kw] ELSE d[kw]]

EmptyDict == [kw \in {} |-> 0]

Keywords == {"k1"}

Samples == 0..MaxVal

AllSeries == UNION {[1..n -> Samples] : n \in 0..MaxLen}

\* one iteration of the batch loop
run_batch ==
    /\ tpc = "loop"
    /\ i < Len(keywords)
    /\ payloads' = Append(payloads, batch_list(keywords, i))
    /\ LET batch_keywords == {keywords[j] : j \in batch_positions(keywords, i)}
           interest_df    == interest_over_time(batch_keywords)
           cols           == IF df_empty(interest_df) THEN {} ELSE DOMAIN interest_df
       IN  results' =
             [trend_data     |-> Update(results.trend_data,
                                        [kw \in cols |-> interest_df[kw]]),
              trend_analysis |-> Update(results.trend_analysis,
                                        [kw \in cols |-> trend_stats(interest_df[kw])]),
              predictions    |-> Update(results.predictions,
                                        [kw \in cols |-> _predict_trend(interest_df[kw])])]
    /\ requests' = requests + 1
    /\ i' = i + BatchSize
    /\ UNCHANGED <<keywords, provider, tpc>>
    /\ UNCHANGED <<seoVars, extVars>>

\* the loop is exhausted: return results
run_return ==
    /\ tpc = "loop"
    /\ i >= Len(keywords)
    /\ tpc' = "returned"
    /\ UNCHANGED <<keywords, provider, i, requests, payloads, results>>
    /\ UNCHANGED <<seoVars, extVars>>

---------------------------------------------------------------------------
(* ContentOptimizer._optimize_seo *)

(***************************************************************************)
(* A text field is a string of this family, given as [kw, fill, len]:      *)
(* kw copies of the word "AI", then fill two-letter words that occur       *)
(* nowhere else in the bundle, all separated by single spaces, then spaces *)
(* up to len characters.  re.findall(r'\w+', text.lower()) yields the      *)
(* kw + fill words in that order; len(text) is len.                        *)
(***************************************************************************)

\* most repetitions of the keyword in one field
MaxKw == 1
\* most tags of a bundle
MaxTags == 6

TitleMin == 30
TitleMax == 60
DescMin == 100
DescMax == 5000
TagsMin == 5
\* keyword density bounds in percent: 5 and 0.5 = DensityLowNum / DensityLowDen
DensityHigh == 5
DensityLowNum == 1
DensityLowDen == 2
\* word_freq.most_common(10)
TopN == 10
\* one check's points
CheckPoints == 25

TextFields == <<"title", "description", "script">>

EmptyText == [kw |-> 0, fill |-> 0, len |-> 0]

\* characters of the words and the spaces between them
MinLen(kw, fill) == IF kw + fill = 0 THEN 0 ELSE 3 * (kw + fill) - 1

Texts(fills, lens) ==
    {t \in [kw : 0..MaxKw, fill : fills, len : lens] : t.len >= MinLen(t.kw, t.fill)}

TitleTexts ==
    Texts({0, 9, 19}, {0, 2, TitleMin - 1, TitleMin, 45, TitleMax, TitleMax + 1})

DescriptionTexts ==
    Texts({0, 19, 199}, {DescMin - 1, DescMin, DescMax, DescMax + 1})

ScriptTexts ==
    {[kw |-> k, fill |-> f, len |-> MinLen(k, f)] : k \in 0..MaxKw, f \in {0, 200}}

TagLists == {[j \in 1..n |-> j] : n \in 0..MaxTags}

\* the bundle with the given entries; None leaves the key out
None == [kw |-> 0, fill |-> 0, len |-> -1]

NoTags == <<-1>>

Bundle(t, d, s, g) ==
    [f \in ({"title" : x \in {t} \ {None}} \cup {"description" : x \in {d} \ {None}}
             \cup {"script" : x \in {s} \ {None}} \cup {"tags" : x \in {g} \ {NoTags}}) |->
        CASE f = "title" -> t
          [] f = "description" -> d
          [] f = "script" -> s
          [] f = "tags" -> g]

\* content.get(f, "")
Get(c, f) == IF f \in DOMAIN c THEN c[f] ELSE EmptyText

Keyword == <<"ai", 0>>

Min(a, b) == IF a < b THEN a ELSE b

\* len(words), words = re.findall(r'\w+', all_text.lower())
total_words(c) ==
    Sum([f \in 1..3 |-> Get(c, TextFields[f]).kw + Get(c, TextFields[f]).fill])

\* Counter(words) as <<word, count>> pairs in order of first occurrence.
\* Of a field's fill words, all counted once, only the first TopN are
\* listed: a later one is never among the TopN most common.
word_freq(c) ==
    LET kws == Sum([f \in 1..3 |-> Get(c, TextFields[f]).kw])
        entries(f) ==
            LET t == Get(c, TextFields[f])
                first == \A e \in 1..(f - 1) : Get(c, TextFields[e]).kw = 0
            IN  (IF t.kw > 0 /\ first THEN <<<<Keyword, kws>>>> ELSE <<>>)
                \o [j \in 1..Min(t.fill, TopN) |-> <<<<TextFields[f], j>>, 1>>]
    IN  entries(1) \o entries(2) \o entries(3)

\* Counter.most_common(n): by descending count, ties in order of first
\* occurrence
RECURSIVE most_common(_, _)
most_common(wf, n) ==
    IF n = 0 \/ wf = <<>> THEN <<>>
    ELSE LET m == CHOOSE j \in 1..Len(wf) :
                      /\ \A l \in 1..Len(wf) : wf[l][2] <= wf[j][2]
                      /\ \A l \in 1..(j - 1) : wf[l][2] < wf[j][2]
         IN  <<wf[m]>> \o most_common([l \in 1..(Len(wf) - 1) |->
                                          IF l < m THEN wf[l] ELSE wf[l + 1]], n - 1)

\* {word: count/total_words * 100 for word, count in most_common(10)}
keyword_density(c) ==
    LET top == most_common(word_freq(c), TopN)
    IN  [w \in {top[j][1] : j \in 1..Len(top)} |->
            LET j == CHOOSE l \in 1..Len(top) : top[l][1] = w
            IN  Rat(top[j][2] * 100, total_words(c))]

\* max(d.values()) of a non-empty dictionary
max_values(d) ==
    CHOOSE v \in {d[w] : w \in DOMAIN d} : \A w \in DOMAIN d : ~FLess(v, d[w])

\* 206.835 - 1.015 * (words / sentences) - 84.6 * (syllables / words),
\* clamped to 0..100; 0 without a sentence or a word
_calculate_readability(sentences, words, syllables) ==
    IF sentences = 0 \/ words = 0 THEN IntF(0)
    ELSE LET score == FSub(FSub(Rat(206835, 1000),
                                FMul(Rat(1015, 1000), Rat(words, sentences))),
                           FMul(Rat(846, 10), Rat(syllables, words)))
         IN  IF FLess(score, IntF(0)) THEN IntF(0)
             ELSE IF FLess(IntF(100), score) THEN IntF(100)
             ELSE score

\* TextBlob(all_text): the text has no punctuation, hence one sentence when
\* it has a word, and every two-letter word counts one syllable
readability_score(c) ==
    LET w == total_words(c)
    IN  _calculate_readability(IF w = 0 THEN 0 ELSE 1, w, w)

\* the title check with both bounds flagged: 30 too short, 60 too long
title_analysis_exclusive(c, st) ==
    IF "title" \notin DOMAIN c THEN st
    ELSE IF c["title"].len <= TitleMin
         THEN [st EXCEPT !.improvements =
                  Append(@, "Title is too short (< 30 characters)")]
    ELSE IF c["title"].len >= TitleMax
         THEN [st EXCEPT !.improvements =
                  Append(@, "Title is too long (> 60 characters)")]
    ELSE [st EXCEPT !.seo_score = @ + CheckPoints]

\* st is [seo_score, improvements]
title_analysis(c, st) ==
    IF "title" \notin DOMAIN c THEN st
    ELSE IF c["title"].len < TitleMin
         THEN [st EXCEPT !.improvements =
                  Append(@, "Title is too short (< 30 characters)")]
    ELSE IF c["title"].len > TitleMax
         THEN [st EXCEPT !.improvements =
                  Append(@, "Title is too long (> 60 characters)")]
    ELSE [st EXCEPT !.seo_score = @ + CheckPoints]

description_analysis(c, st) ==
    IF "description" \notin DOMAIN c THEN st
    ELSE IF c["description"].len < DescMin
         THEN [st EXCEPT !.improvements =
                  Append(@, "Description is too short (< 100 characters)")]
    ELSE IF c["description"].len > DescMax
         THEN [st EXCEPT !.improvements =
                  Append(@, "Description is too long (> 5000 characters)")]
    ELSE [st EXCEPT !.seo_score = @ + CheckPoints]

\* the tags check awarding its points and flagging a short list as well
tags_analysis_both(c, st) ==
    IF "tags" \notin DOMAIN c THEN st
    ELSE IF Len(c["tags"]) < TagsMin
         THEN [seo_score |-> st.seo_score + CheckPoints,
               improvements |-> Append(st.improvements,
                                       "Add more tags (minimum 5 recommended)")]
    ELSE [st EXCEPT !.seo_score = @ + CheckPoints]

tags_analysis(c, st) ==
    IF "tags" \notin DOMAIN c THEN st
    ELSE IF Len(c["tags"]) < TagsMin
         THEN [st EXCEPT !.improvements =
                  Append(@, "Add more tags (minimum 5 recommended)")]
    ELSE [st EXCEPT !.seo_score = @ + CheckPoints]

\* the keyword check with the bounds excluded: >= 5 and <= 0.5 flagged
keyword_analysis_strict(density, st) ==
    IF DOMAIN density = {} THEN st
    ELSE IF ~FLess(max_values(density), IntF(DensityHigh))
         THEN [st EXCEPT !.improvements =
                  Append(@, "Keyword stuffing detected (density > 5%)")]
    ELSE IF ~FLess(Rat(DensityLowNum, DensityLowDen), max_values(density))
         THEN [st EXCEPT !.improvements =
                  Append(@, "Main keyword usage is too low (< 0.5%)")]
    ELSE [st EXCEPT !.seo_score = @ + CheckPoints]

\* the keyword check run on an empty density map as well
keyword_analysis_unguarded(density, st) ==
    IF DOMAIN density = {}
    THEN [st EXCEPT !.improvements =
             Append(@, "Main keyword usage is too low (< 0.5%)")]
    ELSE IF FLess(IntF(DensityHigh), max_values(density))
         THEN [st EXCEPT !.improvements =
                  Append(@, "Keyword stuffing detected (density > 5%)")]
    ELSE IF FLess(max_values(density), Rat(DensityLowNum, DensityLowDen))
         THEN [st EXCEPT !.improvements =
                  Append(@, "Main keyword usage is too low (< 0.5%)")]
    ELSE [st EXCEPT !.seo_score = @ + CheckPoints]

keyword_analysis(density, st) ==
    IF DOMAIN density = {} THEN st
    ELSE IF FLess(IntF(DensityHigh), max_values(density))
         THEN [st EXCEPT !.improvements =
                  Append(@, "Keyword stuffing detected (density > 5%)")]
    ELSE IF FLess(max_values(density), Rat(DensityLowNum, DensityLowDen))
         THEN [st EXCEPT !.improvements =
                  Append(@, "Main keyword usage is too low (< 0.5%)")]
    ELSE [st EXCEPT !.seo_score = @ + CheckPoints]

Locals == [seo_score |-> seo_score, improvements |-> improvements]

SetLocals(st) ==
    /\ seo_score' = st.seo_score
    /\ improvements' = st.improvements

\* seo_analysis is set up, keyword density and readability are computed
seo_begin ==
    /\ spc = "begin"
    /\ seo_analysis' = [keyword_density   |-> keyword_density(content),
                        readability_score |-> readability_score(content),
                        seo_score         |-> 0,
                        improvement_areas |-> <<>>]
    /\ SetLocals([seo_score |-> 0, improvements |-> <<>>])
    /\ spc' = "title"
    /\ UNCHANGED <<content>>
    /\ UNCHANGED <<trendVars, extVars>>

seo_title ==
    /\ spc = "title"
    /\ SetLocals(title_analysis(content, Locals))
    /\ spc' = "description"
    /\ UNCHANGED <<content, seo_analysis>>
    /\ UNCHANGED <<trendVars, extVars>>

seo_description ==
    /\ spc = "description"
    /\ SetLocals(description_analysis(content, Locals))
    /\ spc' = "tags"
    /\ UNCHANGED <<content, seo_analysis>>
    /\ UNCHANGED <<trendVars, extVars>>

seo_tags ==
    /\ spc = "tags"
    /\ SetLocals(tags_analysis(content, Locals))
    /\ spc' = "keyword"
    /\ UNCHANGED <<content, seo_analysis>>
    /\ UNCHANGED <<trendVars, extVars>>

seo_keyword ==
    /\ spc = "keyword"
    /\ SetLocals(keyword_analysis(seo_analysis.keyword_density, Locals))
    /\ spc' = "return"
    /\ UNCHANGED <<content, seo_analysis>>
    /\ UNCHANGED <<trendVars, extVars>>

\* the locals are stored into seo_analysis, which is returned
seo_return ==
    /\ spc = "return"
    /\ seo_analysis' = [seo_analysis EXCEPT !.seo_score = seo_score,
                                            !.improvement_areas = improvements]
    /\ spc' = "done"
    /\ UNCHANGED <<content, seo_score, improvements>>
    /\ UNCHANGED <<trendVars, extVars>>

SeoIdle ==
    /\ content = EmptyDict
    /\ seo_analysis = EmptyDict
    /\ seo_score = 0
    /\ improvements = <<>>
    /\ spc = "idle"

TrendInit ==
    /\ keywords \in {<<>>, <<"k1">>}
    /\ provider \in [Keywords -> AllSeries]
    /\ i = 0
    /\ requests = 0
    /\ payloads = <<>>
    /\ results = [trend_data |-> EmptyDict, trend_analysis |-> EmptyDict,
                  predictions |-> EmptyDict]
    /\ tpc = "loop"
    /\ SeoIdle
    /\ ExtIdle

\* most keywords of a list that is analysed in batches
MaxKeywords == 11

(***************************************************************************)
(* Runs over longer keyword lists.  The keywords of a list are distinct,   *)
(* in ascending or in descending order of their names; the provider holds  *)
(* series of one common length (the rows of one timeframe), the series of  *)
(* the j-th name being (j*t + s) mod (MaxVal + 1) at row t.                *)
(***************************************************************************)
BatchInit ==
    /\ LET names == <<"k1", "k2", "k3", "k4", "k5", "k6", "k7", "k8", "k9",
                      "ka", "kb", "kc", "kd", "ke", "kf", "kg">>
       IN  /\ \E n \in 0..MaxKeywords :
                \/ keywords = [j \in 1..n |-> names[j]]
                \/ keywords = [j \in 1..n |-> names[n + 1 - j]]
           /\ \E rows \in 0..3, s \in 0..1 :
                provider = [kw \in {names[j] : j \in 1..MaxKeywords} |->
                              LET j == CHOOSE x \in 1..MaxKeywords : names[x] = kw
                              IN  [t \in 1..rows |-> (j * t + s) % (MaxVal + 1)]]
    /\ i = 0
    /\ requests = 0
    /\ payloads = <<>>
    /\ results = [trend_data |-> EmptyDict, trend_analysis |-> EmptyDict,
                  predictions |-> EmptyDict]
    /\ tpc = "loop"
    /\ SeoIdle
    /\ ExtIdle

TrendNext == run_batch \/ run_return

SpecBatches == BatchInit /\ [][TrendNext]_vars

SpecTrend == TrendInit /\ [][TrendNext]_vars

TrendIdle ==
    /\ keywords = <<>>
    /\ provider = [kw \in Keywords |-> <<>>]
    /\ i = 0
    /\ requests = 0
    /\ payloads = <<>>
    /\ results = [trend_data |-> EmptyDict, trend_analysis |-> EmptyDict,
                  predictions |-> EmptyDict]
    /\ tpc = "idle"

SeoInit ==
    /\ content \in {Bundle(t, d, s, g) : t \in TitleTexts \cup {None},
                                         d \in DescriptionTexts \cup {None},
                                         s \in ScriptTexts \cup {None},
                                         g \in TagLists \cup {NoTags}}
    /\ seo_analysis = EmptyDict
    /\ seo_score = 0
    /\ improvements = <<>>
    /\ spc = "begin"
    /\ TrendIdle
    /\ ExtIdle

SeoNext ==
    \/ seo_begin
    \/ seo_title
    \/ seo_description
    \/ seo_tags
    \/ seo_keyword
    \/ seo_return

SpecSeo == SeoInit /\ [][SeoNext]_vars

---------------------------------------------------------------------------
(* ContentOptimizer._count_syllables *)

\* the words: up to MaxWord characters out of vowels, a consonant and
\* capitals
Words == UNION {[1..n -> {"a", "e", "y", "b", "A", "E"}] : n \in 0..MaxWord}

\* str.lower on one character
lower_char(c) ==
    CASE c = "A" -> "a"
      [] c = "E" -> "e"
      [] c = "G" -> "g"
      [] OTHER -> c

\* str.lower
lower(w) == [j \in 1..Len(w) |-> lower_char(w[j])]

\* char in vowels, vowels = "aeiouy"
is_vowel(c) == c \in {"a", "e", "i", "o", "u", "y"}

\* word.endswith("e")
endswith_e(w) == Len(w) > 0 /\ w[Len(w)] = "e"

\* the end of _count_syllables without the floor of one syllable
syllable_result_nofloor(w, c) == IF endswith_e(w) THEN c - 1 ELSE c

\* the end of _count_syllables: the final "e" and the floor of one
syllable_result(w, c) ==
    LET c1 == IF endswith_e(w) THEN c - 1 ELSE c
    IN  IF c1 = 0 THEN 1 ELSE c1

\* word = word.lower() and the locals
syl_begin ==
    /\ sylpc = "begin"
    /\ lowered' = lower(word)
    /\ count' = 0
    /\ prev_char_is_vowel' = FALSE
    /\ ci' = 0
    /\ sylpc' = "loop"
    /\ UNCHANGED <<word>>
    /\ UNCHANGED <<trendVars, seoVars, sentVars, chanVars, compVars, runVars>>

\* one iteration of for char in word
syl_char ==
    /\ sylpc = "loop"
    /\ ci < Len(lowered)
    /\ LET char == lowered[ci + 1]
       IN  /\ count' = IF is_vowel(char) /\ ~prev_char_is_vowel
                       THEN count + 1 ELSE count
           /\ prev_char_is_vowel' = is_vowel(char)
    /\ ci' = ci + 1
    /\ UNCHANGED <<word, lowered, sylpc>>
    /\ UNCHANGED <<trendVars, seoVars, sentVars, chanVars, compVars, runVars>>

\* after the loop: the final "e", the floor, return count
syl_return ==
    /\ sylpc = "loop"
    /\ ci = Len(lowered)
    /\ count' = syllable_result(lowered, count)
    /\ sylpc' = "done"
    /\ UNCHANGED <<word, lowered, prev_char_is_vowel, ci>>
    /\ UNCHANGED <<trendVars, seoVars, sentVars, chanVars, compVars, runVars>>

SyllInit ==
    /\ word \in Words
    /\ lowered = <<>>
    /\ count = 0
    /\ prev_char_is_vowel = FALSE
    /\ ci = 0
    /\ sylpc = "begin"
    /\ TrendIdle
    /\ SeoIdle
    /\ SentIdle
    /\ ChanIdle
    /\ CompIdle
    /\ RunIdle

SyllNext == syl_begin \/ syl_char \/ syl_return

SpecSyllables == SyllInit /\ [][SyllNext]_vars

---------------------------------------------------------------------------
(* Comment texts: strings are sequences of characters *)

\* the elements of a set of integers in ascending order
Ascending(S) ==
    [j \in 1..Cardinality(S) |->
        CHOOSE x \in S : Cardinality({y \in S : y < x}) = j - 1]

RECURSIVE Flatten(_)
Flatten(ss) == IF ss = <<>> THEN <<>> ELSE Head(ss) \o Flatten(Tail(ss))

\* str.strip
strip(s) ==
    LET inked == {j \in 1..Len(s) : s[j] # " "}
    IN  IF inked = {} THEN <<>>
        ELSE SubSeq(s, CHOOSE j \in inked : \A l \in inked : j <= l,
                       CHOOSE j \in inked : \A l \in inked : l <= j)

\* str.split: the maximal runs of characters other than whitespace
split(s) ==
    LET starts == Ascending({j \in 1..Len(s) :
                                s[j] # " " /\ (j = 1 \/ s[j - 1] = " ")})
        end(j) == CHOOSE k \in j..Len(s) :
                      /\ k = Len(s) \/ s[k + 1] = " "
                      /\ \A m \in j..k : s[m] # " "
    IN  [j \in 1..Len(starts) |-> SubSeq(s, starts[j], end(starts[j]))]

\* nltk sent_tokenize: a sentence ends at a full stop followed by
\* whitespace, or at the end of the text
sent_tokenize(text) ==
    LET ends == Ascending({k \in 1..Len(text) :
                    \/ k = Len(text)
                    \/ text[k] = "." /\ text[k + 1] = " "})
        from(j) == IF j = 1 THEN 1 ELSE ends[j - 1] + 1
        pieces == [j \in 1..Len(ends) |-> strip(SubSeq(text, from(j), ends[j]))]
    IN  SelectSeq(pieces, LAMBDA p : p # <<>>)

\* nltk word_tokenize on one sentence: whitespace separates tokens, a
\* comma at the end of a word and the full stop that ends the sentence
\* are tokens of their own
word_tokenize(sentence) ==
    LET chunks == split(sentence)
        cut(j) ==
            LET c == chunks[j]
                last == c[Len(c)]
            IN  IF Len(c) > 1 /\ (last = "," \/ (last = "." /\ j = Len(chunks)))
                THEN <<SubSeq(c, 1, Len(c) - 1), <<last>>>>
                ELSE <<c>>
    IN  Flatten([j \in 1..Len(chunks) |-> cut(j)])

\* ' '.join
RECURSIVE join(_)
join(ws) ==
    IF ws = <<>> THEN <<>>
    ELSE IF Len(ws) = 1 THEN ws[1]
    ELSE ws[1] \o <<" ">> \o join(Tail(ws))

\* re.search(pattern, s, re.IGNORECASE) for a pattern of literal
\* characters and the wildcard "."
re_search(pattern, s) ==
    \E off \in 0..(Len(s) - Len(pattern)) :
        \A j \in 1..Len(pattern) :
            \/ pattern[j] = "."
            \/ lower_char(pattern[j]) = lower_char(s[off + j])

---------------------------------------------------------------------------
(* SentimentAnalyzer.run *)

\* sentiment_analyzer(text[:512]): the classifier's input limit
ClassifierLimit == 512
\* most_common(10): the number of topics kept
TopTopics == 10
\* most comments a run collects (the max_comments field)
MaxUnits == 2

\* the words of the comments, besides the nouns below
Vocab ==
    [good |-> <<"g", "o", "o", "d">>,
     Good |-> <<"G", "o", "o", "d">>,
     bad |-> <<"b", "a", "d">>,
     love |-> <<"l", "o", "v", "e">>,
     is |-> <<"i", "s">>,
     video |-> <<"v", "i", "d", "e", "o">>,
     node |-> <<"n", "o", "d", "e">>,
     js |-> <<"j", "s">>,
     nodejs |-> <<"n", "o", "d", "e", ".", "j", "s">>,
     gem |-> <<"g", "e", "m">>]

\* eleven nouns
Nouns ==
    << <<"a", "d", "s">>, <<"a", "r", "t">>, <<"b", "u", "g">>,
       <<"c", "a", "p">>, <<"c", "a", "r">>, <<"c", "a", "t">>,
       <<"d", "o", "g">>, <<"e", "a", "r">>, <<"f", "a", "n">>,
       <<"f", "o", "x">>, Vocab.gem >>

\* nltk.pos_tag: the tag of one token
pos_tag(w) ==
    CASE w \in {Vocab.good, Vocab.Good, Vocab.bad} -> "JJ"
      [] w = Vocab.love -> "VBP"
      [] w = Vocab.is -> "VBZ"
      [] w = <<",">> -> ","
      [] w = <<".">> -> "."
      [] OTHER -> "NN"

\* tag.startswith(('NN', 'JJ'))
is_topic_tag(tag) == tag \in {"NN", "NNS", "NNP", "NNPS", "JJ", "JJR", "JJS"}

\* the lexicon's polarity of one word, in tenths
word_polarity(w) ==
    CASE w \in {Vocab.good, Vocab.Good} -> 7
      [] w = Vocab.bad -> -7
      [] w = Vocab.love -> 5
      [] OTHER -> 0

\* the words of a text the lexicon knows
assessments(text) ==
    LET chunks == split(text)
        bare(c) == IF Len(c) > 1 /\ c[Len(c)] \in {".", ","}
                   THEN SubSeq(c, 1, Len(c) - 1) ELSE c
    IN  SelectSeq([j \in 1..Len(chunks) |-> bare(chunks[j])],
                  LAMBDA w : word_polarity(w) # 0)

\* TextBlob(text).sentiment.polarity: the mean over the known words
polarity(text) ==
    LET a == assessments(text)
    IN  IF a = <<>> THEN IntF(0)
        ELSE Rat(Sum([j \in 1..Len(a) |-> word_polarity(a[j])]), 10 * Len(a))

\* TextBlob(text).sentiment.subjectivity
subjectivity(text) ==
    IF assessments(text) = <<>> THEN IntF(0) ELSE Rat(3, 5)

\* the transformer pipeline on the text it is handed
sentiment_analyzer(text) ==
    LET p == polarity(text)
    IN  [label |-> IF p.n < 0 THEN "NEGATIVE" ELSE "POSITIVE",
         score |-> IF p.n = 0 THEN Rat(1, 2) ELSE Rat(9, 10)]

\* the texts of the comments: two sentences with the topic "node js"; the
\* topic "node.js"; a list of eleven nouns; a text whose negative word
\* lies past the classifier's limit
CommentTexts ==
    LET W == Vocab
        stop == <<".", " ">>
    IN  {join(<<W.node, W.js, W.is, W.bad, W.video>>) \o stop
             \o join(<<W.Good, W.video>>),
         join(<<W.good, W.video>>) \o stop \o join(<<W.love, W.nodejs>>),
         join([j \in 1..Len(Nouns) |->
                 IF j < Len(Nouns) THEN Nouns[j] \o <<",">> ELSE Nouns[j]]),
         W.video \o [j \in 1..(ClassifierLimit - Len(W.video)) |-> " "]
             \o W.bad \o stop \o W.gem}

\* the top-level comments the API can return
Comments ==
    {[text |-> t, likes |-> s.likes, published_at |-> s.published_at] :
        t \in CommentTexts,
        s \in {[likes |-> 0, published_at |-> "2024-01-01T10:00:00Z"],
               [likes |-> 2, published_at |-> "2024-01-02T09:30:00Z"]}}

\* the replies a comment thread can carry: none or one
Replies ==
    {<<>>, <<[text |-> Vocab.bad \o <<" ">> \o Vocab.video, likes |-> 0,
              published_at |-> "2024-01-02T09:30:00Z"]>>}

\* pd.to_datetime(published_at).dt.date
date_of(ts) ==
    CASE ts = "2024-01-01T10:00:00Z" -> "2024-01-01"
      [] ts = "2024-01-02T09:30:00Z" -> "2024-01-02"

\* one entry of sentiments, with the classifier handed the whole text
score_comment_untruncated(text) ==
    [polarity |-> polarity(text),
     subjectivity |-> subjectivity(text),
     label |-> sentiment_analyzer(text).label,
     score |-> sentiment_analyzer(text).score]

\* one entry of sentiments: TextBlob on the text, the classifier on
\* text[:512]
score_comment(text) ==
    [polarity |-> polarity(text),
     subjectivity |-> subjectivity(text),
     label |-> sentiment_analyzer(
                   SubSeq(text, 1, Min(ClassifierLimit, Len(text)))).label,
     score |-> sentiment_analyzer(
                   SubSeq(text, 1, Min(ClassifierLimit, Len(text)))).score]

\* the loop over the tagged tokens of one sentence
RECURSIVE topic_loop(_, _, _)
topic_loop(tokens, current_topic, found) ==
    IF tokens = <<>> THEN [current_topic |-> current_topic, found |-> found]
    ELSE IF is_topic_tag(pos_tag(Head(tokens)))
    THEN topic_loop(Tail(tokens), Append(current_topic, Head(tokens)), found)
    ELSE IF current_topic # <<>>
    THEN topic_loop(Tail(tokens), <<>>, Append(found, join(current_topic)))
    ELSE topic_loop(Tail(tokens), current_topic, found)

\* the topics of one sentence without the flush after the loop
sentence_topics_noflush(sentence) ==
    topic_loop(word_tokenize(sentence), <<>>, <<>>).found

\* the topics of one sentence
sentence_topics(sentence) ==
    LET l == topic_loop(word_tokenize(sentence), <<>>, <<>>)
    IN  IF l.current_topic # <<>>
        THEN Append(l.found, join(l.current_topic))
        ELSE l.found

\* Counter(items): the distinct items in order of first occurrence, each
\* with its number of occurrences
Counter(items) ==
    LET firsts == Ascending({j \in 1..Len(items) :
                               \A l \in 1..(j - 1) : items[l] # items[j]})
    IN  [j \in 1..Len(firsts) |->
            <<items[firsts[j]],
              Cardinality({l \in 1..Len(items) : items[l] = items[firsts[j]]})>>]

\* the mean of a non-empty sequence of exact values
RECURSIVE FSum(_)
FSum(fs) == IF fs = <<>> THEN IntF(0) ELSE FAdd(Head(fs), FSum(Tail(fs)))

FMean(fs) == FDiv(FSum(fs), IntF(Len(fs)))

\* the comments whose text matches the topic:
\* df[df['text'].str.contains(topic, case=False)]
topic_comments(df, topic) ==
    SelectSeq(df, LAMBDA c : re_search(topic, c.text))

\* one pass of the while loop whose request succeeds: the page carries no
\* thread or one; the top-level comment is appended, then its replies when
\* include_replies; the loop ends when the page names no next page
sa_collect ==
    /\ sapc = "collect"
    /\ Len(comments_data) < MaxUnits
    /\ \E top \in {<<>>} \cup {<<c>> : c \in Comments}, replies \in Replies,
          next_page_token \in BOOLEAN :
        /\ comments_data' = comments_data \o top \o
               (IF top # <<>> /\ include_replies THEN replies ELSE <<>>)
        /\ sapc' = IF next_page_token /\ Len(comments_data') < MaxUnits
                   THEN "collect" ELSE "score"
    /\ UNCHANGED <<include_replies, sentiments, all_sentences, topics, sa_results>>
    /\ UNCHANGED <<trendVars, seoVars, syllVars, chanVars, compVars, runVars>>

\* request.execute() raises: the error string is returned
sa_fetch_error ==
    /\ sapc = "collect"
    /\ Len(comments_data) < MaxUnits
    /\ sa_results' = [error |-> "Error fetching comments"]
    /\ sapc' = "done"
    /\ UNCHANGED <<include_replies, comments_data, sentiments, all_sentences, topics>>
    /\ UNCHANGED <<trendVars, seoVars, syllVars, chanVars, compVars, runVars>>

\* df = pd.DataFrame(comments_data) and the loop over df['text']; a frame
\* built from no comment has no column 'text'
sa_score ==
    /\ sapc = "score"
    /\ IF comments_data = <<>>
       THEN /\ sa_results' = [raised |-> "KeyError"]
            /\ sapc' = "raised"
            /\ UNCHANGED sentiments
       ELSE /\ sentiments' = [j \in 1..Len(comments_data) |->
                                 score_comment(comments_data[j].text)]
            /\ sapc' = "topics"
            /\ UNCHANGED sa_results
    /\ UNCHANGED <<include_replies, comments_data, all_sentences, topics>>
    /\ UNCHANGED <<trendVars, seoVars, syllVars, chanVars, compVars, runVars>>

\* the sentences of every comment, then the topics of every sentence
sa_topics ==
    /\ sapc = "topics"
    /\ all_sentences' = Flatten([j \in 1..Len(comments_data) |->
                                    sent_tokenize(comments_data[j].text)])
    /\ topics' = Flatten([j \in 1..Len(all_sentences') |->
                             sentence_topics(all_sentences'[j])])
    /\ sapc' = "compile"
    /\ UNCHANGED <<include_replies, comments_data, sentiments, sa_results>>
    /\ UNCHANGED <<trendVars, seoVars, syllVars, chanVars, compVars, runVars>>

\* results = {...}
sa_compile ==
    /\ sapc = "compile"
    /\ LET n == Len(sentiments)
           labels == {sentiments[j].label : j \in 1..n}
           likes == [j \in 1..Len(comments_data) |-> comments_data[j].likes]
           dates == {date_of(comments_data[j].published_at) :
                        j \in 1..Len(comments_data)}
           on(d) == SelectSeq(comments_data,
                              LAMBDA c : date_of(c.published_at) = d)
       IN  sa_results' =
             [overall_sentiment |->
                [average_polarity |->
                    FMean([j \in 1..n |-> sentiments[j].polarity]),
                 average_subjectivity |->
                    FMean([j \in 1..n |-> sentiments[j].subjectivity]),
                 positive_percentage |->
                    Rat(100 * Cardinality({j \in 1..n :
                            sentiments[j].label = "POSITIVE"}), n),
                 sentiment_distribution |->
                    [l \in labels |->
                        Cardinality({j \in 1..n : sentiments[j].label = l})]],
              engagement_metrics |->
                [total_comments |-> Len(comments_data),
                 total_likes |-> Sum(likes),
                 avg_likes_per_comment |-> np_mean(likes)],
              key_themes |->
                [top_topics |-> most_common(Counter(topics), TopTopics),
                 topic_sentiment |-> <<>>],
              temporal_analysis |->
                [sentiment_trend |->
                    [d \in dates |->
                        np_mean([j \in 1..Len(on(d)) |-> on(d)[j].likes])]]]
    /\ sapc' = "topic_sentiment"
    /\ UNCHANGED <<include_replies, comments_data, sentiments, all_sentences, topics>>
    /\ UNCHANGED <<trendVars, seoVars, syllVars, chanVars, compVars, runVars>>

\* the loop over top_topics, then return results
sa_topic_sentiment ==
    /\ sapc = "topic_sentiment"
    /\ LET top == sa_results.key_themes.top_topics
           matched == {top[j][1] : j \in {l \in 1..Len(top) :
                          topic_comments(comments_data, top[l][1]) # <<>>}}
           mean(topic) ==
               LET tc == topic_comments(comments_data, topic)
               IN  FMean([j \in 1..Len(tc) |-> polarity(tc[j].text)])
       IN  sa_results' =
             [sa_results EXCEPT !.key_themes.topic_sentiment =
                 [topic \in matched |-> mean(topic)]]
    /\ sapc' = "done"
    /\ UNCHANGED <<include_replies, comments_data, sentiments, all_sentences, topics>>
    /\ UNCHANGED <<trendVars, seoVars, syllVars, chanVars, compVars, runVars>>

SentInit ==
    /\ include_replies \in BOOLEAN
    /\ comments_data = <<>>
    /\ sentiments = <<>>
    /\ all_sentences = <<>>
    /\ topics = <<>>
    /\ sa_results = <<>>
    /\ sapc = "collect"
    /\ TrendIdle
    /\ SeoIdle
    /\ SyllIdle
    /\ ChanIdle
    /\ CompIdle
    /\ RunIdle

SentNext ==
    \/ sa_collect
    \/ sa_fetch_error
    \/ sa_score
    \/ sa_topics
    \/ sa_compile
    \/ sa_topic_sentiment

SpecSentiment == SentInit /\ [][SentNext]_vars

---------------------------------------------------------------------------
(* Video records of ChannelAnalyzer and CompetitorAnalyzer *)

\* most video records one ChannelAnalyzer run collects
MaxVideos == 2

\* Series.round(2) on one value: to the nearest hundredth, halves to even
Round2(f) ==
    IF ~IsNum(f) THEN f
    ELSE LET q == (f.n * 100) \div f.d
             r == (f.n * 100) % f.d
             up == 2 * r > f.d \/ (2 * r = f.d /\ q % 2 = 1)
         IN  Rat(IF up THEN q + 1 ELSE q, 100)

\* int(x) of a finite float: towards zero
Trunc(f) == IF f.n >= 0 THEN f.n \div f.d ELSE -((-f.n) \div f.d)

\* Series.mean(): NaN entries are skipped, infinite ones are not
pd_mean(fs) ==
    LET kept == SelectSeq(fs, LAMBDA f : f.k # "nan")
        infs == {kept[j].n : j \in {l \in 1..Len(kept) : kept[l].k = "inf"}}
    IN  IF kept = <<>> THEN NaN
        ELSE IF infs = {} THEN FMean(kept)
        ELSE IF Cardinality(infs) = 1 THEN Inf(CHOOSE s \in infs : TRUE)
        ELSE NaN

\* the videos the API can return: a zoned date, an unzoned one or no date;
\* the counts as int() reads them
Videos ==
    {[published_at |-> p, views |-> v, likes |-> r.likes, comments |-> r.comments] :
        p \in {"2024-01-01T10:00:00Z", "2024-01-01 10:00:00", "n/a"},
        v \in {-1, 0, 2},
        r \in {[likes |-> 0, comments |-> 0], [likes |-> 1, comments |-> 0],
               [likes |-> 1, comments |-> 1]}}

\* pd.to_datetime on a column of strings: "raised" for a string that is no
\* date or a mix of zoned and unzoned dates, else the kind of the column
to_datetime(stamps) ==
    IF "n/a" \in stamps THEN "raised"
    ELSE IF stamps = {"2024-01-01T10:00:00Z"} THEN "utc"
    ELSE IF stamps = {"2024-01-01 10:00:00"} THEN "naive"
    ELSE "raised"

\* (datetime.now() - published_at).total_seconds() / 86400 for the unzoned
\* date, on the day the tool runs
age_days(p) == 3

\* (likes + comments) / views * 100, rounded
engagement_rate(v) ==
    LET q == FDiv(IntF(v.likes + v.comments), IntF(v.views))
    IN  IF IsNum(q) THEN Round2(FMul(q, IntF(100))) ELSE q

\* the rows of df with the column engagement_rate
with_engagement(rows) ==
    [j \in 1..Len(rows) |->
        [f \in DOMAIN rows[j] \cup {"engagement_rate"} |->
            IF f = "engagement_rate" THEN engagement_rate(rows[j])
            ELSE rows[j][f]]]

\* df['views'].idxmax(): the first row with the most views
idxmax(rows) ==
    CHOOSE j \in 1..Len(rows) :
        /\ \A l \in 1..Len(rows) : rows[l].views <= rows[j].views
        /\ \A l \in 1..(j - 1) : rows[l].views < rows[j].views

---------------------------------------------------------------------------
(* ChannelAnalyzer.run *)

\* the statistics of the channel CHANNEL_ID
channel_response ==
    [subscriberCount |-> 10, viewCount |-> 100, videoCount |-> 5,
     description |-> "about"]

\* a record with one more field
Extend(rec, field, value) ==
    [f \in DOMAIN rec \cup {field} |-> IF f = field THEN value ELSE rec[f]]

\* df[column].mean() without the test of df.empty
mean_unguarded(rows, column) == pd_mean(column)

\* df[column].mean() if not df.empty else 0
mean_or_zero(rows, column) == IF rows # <<>> THEN pd_mean(column) ELSE IntF(0)

\* one pass of the loop over the videos found: the statistics of the video
\* are missing, or its record is appended (with the top comments of a video
\* that has none when include_comments)
ch_video ==
    /\ chpc = "videos"
    /\ Len(video_stats) < MaxVideos
    /\ \E items \in {<<>>} \cup {<<v>> : v \in Videos} :
        video_stats' = video_stats \o
            [j \in 1..Len(items) |->
                IF include_comments
                THEN Extend(items[j], "top_comments", <<>>)
                ELSE items[j]]
    /\ UNCHANGED <<include_comments, ch_df, ch_results, chpc>>
    /\ UNCHANGED <<trendVars, seoVars, syllVars, sentVars, compVars, runVars>>

\* a request of the loop raises: nothing in run catches it
ch_api_error ==
    /\ chpc = "videos"
    /\ ch_results' = [raised |-> "HttpError"]
    /\ chpc' = "raised"
    /\ UNCHANGED <<include_comments, video_stats, ch_df>>
    /\ UNCHANGED <<trendVars, seoVars, syllVars, sentVars, compVars, runVars>>

\* df = pd.DataFrame(video_stats) and, for a frame with rows, the columns
\* engagement_rate and avg_views_per_day; datetime.now() has no zone, so
\* subtracting a column of zoned dates raises
ch_metrics ==
    /\ chpc = "videos"
    /\ LET kind == to_datetime({video_stats[j].published_at :
                                   j \in 1..Len(video_stats)})
           rated == with_engagement(video_stats)
       IN  IF video_stats = <<>>
           THEN /\ ch_df' = <<>>
                /\ chpc' = "compile"
                /\ UNCHANGED ch_results
           ELSE IF kind = "raised"
           THEN /\ ch_results' = [raised |-> "ValueError"]
                /\ chpc' = "raised"
                /\ UNCHANGED ch_df
           ELSE IF kind = "utc"
           THEN /\ ch_results' = [raised |-> "TypeError"]
                /\ chpc' = "raised"
                /\ UNCHANGED ch_df
           ELSE /\ ch_df' = [j \in 1..Len(rated) |->
                               Extend(rated[j], "avg_views_per_day",
                                   Round2(FDiv(IntF(rated[j].views),
                                       IntF(age_days(rated[j].published_at)))))]
                /\ chpc' = "compile"
                /\ UNCHANGED ch_results
    /\ UNCHANGED <<include_comments, video_stats>>
    /\ UNCHANGED <<trendVars, seoVars, syllVars, sentVars, compVars, runVars>>

\* results = {...} and return
ch_compile ==
    /\ chpc = "compile"
    /\ ch_results' =
         [channel_stats |->
            [total_subscribers |-> channel_response.subscriberCount,
             total_views |-> channel_response.viewCount,
             total_videos |-> channel_response.videoCount,
             channel_description |-> channel_response.description],
          performance_metrics |->
            [avg_views_per_video |->
                mean_or_zero(ch_df, [j \in 1..Len(ch_df) |-> IntF(ch_df[j].views)]),
             avg_engagement_rate |->
                mean_or_zero(ch_df, [j \in 1..Len(ch_df) |-> ch_df[j].engagement_rate]),
             best_performing_video |->
                IF ch_df # <<>> THEN ch_df[idxmax(ch_df)] ELSE [none |-> TRUE],
             recent_videos |-> ch_df]]
    /\ chpc' = "done"
    /\ UNCHANGED <<include_comments, video_stats, ch_df>>
    /\ UNCHANGED <<trendVars, seoVars, syllVars, sentVars, compVars, runVars>>

ChanInit ==
    /\ include_comments \in BOOLEAN
    /\ video_stats = <<>>
    /\ ch_df = <<>>
    /\ ch_results = <<>>
    /\ chpc = "videos"
    /\ TrendIdle
    /\ SeoIdle
    /\ SyllIdle
    /\ SentIdle
    /\ CompIdle
    /\ RunIdle


---------------------------------------------------------------------------
(* CompetitorAnalyzer.run *)

\* the videos the search returns for one channel
Batches ==
    {<<>>} \cup {<<v>> : v \in Videos}
    \cup {<<[published_at |-> "2024-01-01T10:00:00Z", views |-> 0,
             likes |-> 1, comments |-> 0],
            [published_at |-> "2024-01-01T10:00:00Z", views |-> 2,
             likes |-> 1, comments |-> 0]>>,
          <<[published_at |-> "2024-01-01T10:00:00Z", views |-> 2,
             likes |-> 1, comments |-> 1],
            [published_at |-> "2024-01-01 10:00:00", views |-> 2,
             likes |-> 0, comments |-> 0]>>}

\* the except clause with results["errors"] replaced by a fresh dict
record_error_fresh(res, channel_id, message) ==
    Extend(res, "errors", [c \in {channel_id} |-> message])

\* the except clause: results["errors"] = results.get("errors", {});
\* results["errors"][channel_id] = str(e)
record_error(res, channel_id, message) ==
    LET errors == IF "errors" \in DOMAIN res THEN res.errors ELSE EmptyDict
    IN  Extend(res, "errors", Update(errors, [c \in {channel_id} |-> message]))

\* results["channel_comparisons"][channel_id] = {...}
store_comparison(res, channel_id, df) ==
    [res EXCEPT !.channel_comparisons = Update(res.channel_comparisons,
        [c \in {channel_id} |->
            [name |-> channel_id,
             subscribers |-> channel_response.subscriberCount,
             total_views |-> channel_response.viewCount,
             total_videos |-> channel_response.videoCount,
             avg_views_per_video |->
                Trunc(pd_mean([j \in 1..Len(df) |-> IntF(df[j].views)])),
             avg_engagement_rate |->
                pd_mean([j \in 1..Len(df) |-> df[j].engagement_rate])]])]

\* one pass of for channel_id in self.competitor_channels. A request
\* raises, or the channel is unknown, or its videos are filtered by
\* min_views and analysed; _analyze_tags uses the name Counter, which the
\* module never imports, so the analysis of a frame with rows raises after
\* the entry of channel_comparisons was stored.
cp_channel ==
    /\ cppc = "loop"
    /\ cp_i < Len(competitor_channels)
    /\ LET channel_id == competitor_channels[cp_i + 1]
       IN  \/ /\ cp_results' = record_error(cp_results, channel_id, "HttpError")
              /\ cp_trace' = Append(cp_trace,
                    [channel |-> channel_id, outcome |-> "raised"])
           \/ /\ cp_results' = cp_results
              /\ cp_trace' = Append(cp_trace,
                    [channel |-> channel_id, outcome |-> "unknown"])
           \/ \E found \in Batches :
                LET video_data == SelectSeq(found,
                                      LAMBDA v : v.views >= min_views)
                    kind == to_datetime({video_data[j].published_at :
                                            j \in 1..Len(video_data)})
                    df == with_engagement(video_data)
                IN  IF video_data = <<>>
                    THEN /\ cp_results' = cp_results
                         /\ cp_trace' = Append(cp_trace,
                               [channel |-> channel_id, outcome |-> "empty"])
                    ELSE IF kind = "raised"
                    THEN /\ cp_results' = record_error(cp_results,
                                              channel_id, "ValueError")
                         /\ cp_trace' = Append(cp_trace,
                               [channel |-> channel_id, outcome |-> "raised"])
                    ELSE /\ cp_results' = record_error(
                               store_comparison(cp_results, channel_id, df),
                               channel_id, "name 'Counter' is not defined")
                         /\ cp_trace' = Append(cp_trace,
                               [channel |-> channel_id, outcome |-> "raised",
                                video_data |-> video_data])
    /\ cp_i' = cp_i + 1
    /\ UNCHANGED <<competitor_channels, min_views, cppc>>
    /\ UNCHANGED <<trendVars, seoVars, syllVars, sentVars, chanVars, runVars>>

\* return results
cp_return ==
    /\ cppc = "loop"
    /\ cp_i = Len(competitor_channels)
    /\ cppc' = "done"
    /\ UNCHANGED <<competitor_channels, min_views, cp_i, cp_results, cp_trace>>
    /\ UNCHANGED <<trendVars, seoVars, syllVars, sentVars, chanVars, runVars>>

CompInit ==
    /\ competitor_channels \in {<<>>, <<"c1">>, <<"c1", "c2">>, <<"c2", "c1", "c3">>}
    /\ min_views \in {0, 1000}
    /\ cp_i = 0
    /\ cp_results = [channel_comparisons |-> EmptyDict,
                     content_analysis |-> EmptyDict,
                     top_performing_content |-> EmptyDict,
                     upload_patterns |-> EmptyDict,
                     engagement_metrics |-> EmptyDict,
                     growth_metrics |-> EmptyDict]
    /\ cp_trace = <<>>
    /\ cppc = "loop"
    /\ TrendIdle
    /\ SeoIdle
    /\ SyllIdle
    /\ SentIdle
    /\ ChanIdle
    /\ RunIdle

VideosNext ==
    \/ ch_video
    \/ ch_api_error
    \/ ch_metrics
    \/ ch_compile
    \/ cp_channel
    \/ cp_return

\* one of the two tools that aggregate video records is run
SpecVideos == (ChanInit \/ CompInit) /\ [][VideosNext]_vars

---------------------------------------------------------------------------
(* ContentOptimizer.run *)

\* most calls of run on one tool object
MaxCalls == 2
\* latest tick of the clock
MaxClock == 2

\* _optimize_seo as a function of the bundle
_optimize_seo(c) ==
    LET st == keyword_analysis(keyword_density(c),
                  tags_analysis(c,
                      description_analysis(c,
                          title_analysis(c,
                              [seo_score |-> 0, improvements |-> <<>>]))))
    IN  [keyword_density   |-> keyword_density(c),
         readability_score |-> readability_score(c),
         seo_score         |-> st.seo_score,
         improvement_areas |-> st.improvements]

\* the contents run is called with
RunContents ==
    {Bundle(t, d, None, g) : t \in TitleTexts \cup {None},
                             d \in {CHOOSE x \in DescriptionTexts : TRUE, None},
                             g \in {CHOOSE x \in TagLists : TRUE, NoTags}}

\* the dict run returns when the clock reads now
run_result(c, now) ==
    [optimized_content |-> [f \in DOMAIN c |-> c[f]],
     seo_analysis |-> _optimize_seo(c),
     engagement_predictions |-> EmptyDict,
     recommendations |-> EmptyDict,
     metadata |-> [optimization_timestamp |-> now,
                   platform |-> "youtube",
                   optimization_version |-> "1.0"]]

\* one call of run: the clock has not gone back since the call before
run ==
    /\ Len(run_results) < MaxCalls
    /\ \E now \in clock..MaxClock :
        /\ clock' = now
        /\ run_results' = Append(run_results, run_result(run_content, now))
    /\ UNCHANGED run_content
    /\ UNCHANGED <<trendVars, seoVars, syllVars, sentVars, chanVars, compVars>>

RunInit ==
    /\ run_content \in RunContents
    /\ clock \in 0..MaxClock
    /\ run_results = <<>>
    /\ TrendIdle
    /\ SeoIdle
    /\ SyllIdle
    /\ SentIdle
    /\ ChanIdle
    /\ CompIdle

RunNext == run

SpecRun == RunInit /\ [][RunNext]_vars

---------------------------------------------------------------------------
(* Claims about TrendAnalyzer *)

Analysed == DOMAIN results.trend_analysis

\* the series a reported record was computed from
SeriesOf(kw) == results.trend_data[kw]

Zero == IntF(0)

IsConstant(s) == \A j \in 1..Len(s) : s[j] = s[1]

\* C1: for an empty time series the run reports a record whose mean,
\* median, std, min, max, volatility and momentum are 0, whose direction is
\* "stable" and whose forecast is empty.
C1_EmptySeriesReportsZeros ==
    (tpc = "returned" /\ keywords = <<"k1">> /\ provider["k1"] = <<>>)
        => /\ "k1" \in Analysed
           /\ "k1" \in DOMAIN results.predictions
           /\ results.trend_analysis["k1"] =
                  [mean |-> Zero, median |-> Zero, std |-> Zero, min |-> Zero,
                   max |-> Zero, trend_direction |-> "stable",
                   volatility |-> Zero, momentum |-> Zero]
           /\ results.predictions["k1"] = <<>>

\* C2: every non-empty series of identical samples is reported with
\* std = 0, direction "stable" and momentum = 0.
C2_ConstantSeriesIsFlat ==
    (tpc = "returned" /\ keywords = <<"k1">> /\ Len(provider["k1"]) > 0
       /\ IsConstant(provider["k1"]))
        => /\ "k1" \in Analysed
           /\ results.trend_analysis["k1"].std = Zero
           /\ results.trend_analysis["k1"].trend_direction = "stable"
           /\ results.trend_analysis["k1"].momentum = Zero

\* C3: momentum is ((last - first) / first) * 100 for a series of at least
\* two samples whose first sample is not 0, and exactly 0 otherwise.
C3_MomentumDefined ==
    \A kw \in Analysed :
        LET s == SeriesOf(kw)
        IN  results.trend_analysis[kw].momentum =
                IF Len(s) >= 2 /\ s[1] # 0
                THEN Rat((s[Len(s)] - s[1]) * 100, s[1])
                ELSE Zero

\* C4: volatility is std / mean when the mean is not 0, and the sentinel 0
\* when the mean is 0.
C4_VolatilityDefined ==
    \A kw \in Analysed :
        LET s == SeriesOf(kw)
            r == results.trend_analysis[kw]
        IN  IF Sum(s) # 0
            THEN r.volatility = FSqrtDiv(r.std, r.mean)
            ELSE r.volatility = Zero

\* n * sum of products minus product of sums: n^2 times the covariance of a
\* series with another (with itself: n^2 times its variance)
Cross(a, b) ==
    Len(a) * Sum([j \in 1..Len(a) |-> a[j] * b[j]]) - Sum(a) * Sum(b)

\* |r| < 0.3 for the least-squares fit of s against its index, on integers:
\* r is 0 when either variance is 0, else r^2 = Sxy^2 / (Sxx * Syy)
WeakFit(s) ==
    LET x == arange(Len(s))
    IN  \/ Cross(x, x) = 0
        \/ Cross(s, s) = 0
        \/ 100 * Cross(x, s) * Cross(x, s) < 9 * Cross(x, x) * Cross(s, s)

\* C5: the direction is "stable" exactly when |r| < 0.3; otherwise it is
\* "increasing" when the fitted slope is > 0 and "decreasing" in every other
\* case.
C5_DirectionPolicy ==
    \A kw \in Analysed :
        LET s == SeriesOf(kw)
            d == results.trend_analysis[kw].trend_direction
        IN  /\ d \in {"stable", "increasing", "decreasing"}
            /\ (d = "stable") <=> WeakFit(s)
            /\ (d = "increasing") <=> (~WeakFit(s) /\ Cross(arange(Len(s)), s) > 0)

C5_Witness ==
    \E kw \in Analysed :
        /\ results.trend_analysis[kw].trend_direction = "decreasing"
        /\ ~WeakFit(SeriesOf(kw))
        /\ Cross(arange(Len(SeriesOf(kw))), SeriesOf(kw)) < 0

\* a series of at least two samples with a constant step > 0
IsLinearIncreasing(s) ==
    /\ Len(s) >= 2
    /\ s[2] > s[1]
    /\ \A j \in 2..Len(s) : s[j] - s[j - 1] = s[2] - s[1]

\* C6: a strictly linearly increasing series with step d is "increasing"
\* and its forecast is 30 values, the k-th equal to last + k * d (no
\* clamping to the historical maximum).
C6_LinearForecast ==
    \A kw \in Analysed :
        LET s == SeriesOf(kw)
        IN  IsLinearIncreasing(s) =>
              /\ results.trend_analysis[kw].trend_direction = "increasing"
              /\ Len(results.predictions[kw]) = 30
              /\ \A k \in 1..30 :
                    results.predictions[kw][k] =
                        IntF(s[Len(s)] + k * (s[2] - s[1]))

C6_Witness ==
    \E kw \in Analysed :
        /\ IsLinearIncreasing(SeriesOf(kw))
        /\ Len(SeriesOf(kw)) >= 3
        /\ results.predictions[kw][30] = IntF(SeriesOf(kw)[Len(SeriesOf(kw))]
                                              + 30 * (SeriesOf(kw)[2] - SeriesOf(kw)[1]))

---------------------------------------------------------------------------
(* Claims about ContentOptimizer._optimize_seo *)

\* how many checks the run is past
Stage ==
    CASE spc = "title" -> 0
      [] spc = "description" -> 1
      [] spc = "tags" -> 2
      [] spc = "keyword" -> 3
      [] spc \in {"return", "done"} -> 4
      [] OTHER -> 0

WordCount(c) ==
    Sum([f \in 1..3 |-> IF TextFields[f] \in DOMAIN c
                        THEN c[TextFields[f]].kw + c[TextFields[f]].fill ELSE 0])

\* occurrences of the most frequent word of the bundle's text
TopCount(c) ==
    LET k == Sum([f \in 1..3 |-> IF TextFields[f] \in DOMAIN c
                                 THEN c[TextFields[f]].kw ELSE 0])
    IN  IF k >= 1 THEN k ELSE IF WordCount(c) > 0 THEN 1 ELSE 0

\* the checks among the first k that are evaluated for bundle c: a field's
\* check when the field is present, the keyword check when the text has a word
Evaluated(c, k) ==
    (IF k >= 1 /\ "title" \in DOMAIN c THEN 1 ELSE 0)
    + (IF k >= 2 /\ "description" \in DOMAIN c THEN 1 ELSE 0)
    + (IF k >= 3 /\ "tags" \in DOMAIN c THEN 1 ELSE 0)
    + (IF k >= 4 /\ WordCount(c) > 0 THEN 1 ELSE 0)

Contains(seq, m) == \E j \in 1..Len(seq) : seq[j] = m

\* C7: every evaluated check either adds 25 points or appends one
\* diagnostic, never both and never neither: the score is a multiple of 25
\* in 0..100 and score/25 + number of diagnostics = number of checks
\* evaluated, after every check and in the returned report.
C7_PointsOrDiagnostic ==
    spc \notin {"idle", "begin"} =>
        /\ seo_score \in {0, 25, 50, 75, 100}
        /\ seo_score \div 25 + Len(improvements) = Evaluated(content, Stage)
        /\ spc = "done" =>
              /\ seo_analysis.seo_score = seo_score
              /\ seo_analysis.improvement_areas = improvements

C7_Witness ==
    /\ spc = "done"
    /\ Evaluated(content, 4) = 4
    /\ seo_analysis.seo_score = 50
    /\ Len(seo_analysis.improvement_areas) = 2

\* C8 as stated: a missing field's check is skipped and the score is at
\* most 25 times the number of fields supplied.
C8_ScoreBoundedByFields ==
    spc = "done" => seo_analysis.seo_score <= 25 * Cardinality(DOMAIN content)

\* a step of _optimize_seo leaves the score and the diagnostics as they are
Skipped == seo_score' = seo_score /\ improvements' = improvements

\* C8, amended: a check whose field is missing is skipped (the keyword
\* check, which belongs to no single field, when title, description and
\* script hold no word), and the score is at most 25 times the number of
\* checks evaluated; a bundle with only a title can score up to 50.
C8_SkippedAndBounded ==
    /\ [][/\ (spc = "title" /\ "title" \notin DOMAIN content) => Skipped
          /\ (spc = "description" /\ "description" \notin DOMAIN content) => Skipped
          /\ (spc = "tags" /\ "tags" \notin DOMAIN content) => Skipped
          /\ (spc = "keyword" /\ WordCount(content) = 0) => Skipped]_vars
    /\ [](spc = "done" =>
            /\ seo_analysis.seo_score <= 25 * Evaluated(content, 4)
            /\ (DOMAIN content = {"title"} => seo_analysis.seo_score <= 50))

C8_Witness ==
    /\ spc = "done"
    /\ DOMAIN content = {"title"}
    /\ seo_analysis.seo_score = 50
    /\ seo_analysis.improvement_areas = <<>>

Stuffing == "Keyword stuffing detected (density > 5%)"

TooLow == "Main keyword usage is too low (< 0.5%)"

\* the top density of the bundle against the bounds, on integers:
\* TopCount / WordCount * 100 against 5 and against 0.5
Above5 == 100 * TopCount(content) > 5 * WordCount(content)

Below05 == 200 * TopCount(content) < WordCount(content)

Exactly5 == 100 * TopCount(content) = 5 * WordCount(content)

Exactly05 == 200 * TopCount(content) = WordCount(content)

Awarded == seo_score' = seo_score + 25 /\ improvements' = improvements

Flagged(m) == seo_score' = seo_score /\ improvements' = Append(improvements, m)

\* C9 as stated: the keyword check awards its points only for a top
\* density strictly between 0.5% and 5%; exactly 0.5% and exactly 5% are not
\* awarded.
C9_StrictBounds ==
    [][(spc = "keyword" /\ WordCount(content) > 0) =>
          /\ Above5 => Flagged(Stuffing)
          /\ Below05 => Flagged(TooLow)
          /\ Awarded => (~Above5 /\ ~Below05 /\ ~Exactly5 /\ ~Exactly05)]_vars

\* C9, amended: a top density above 5% yields the "keyword stuffing"
\* diagnostic, one below 0.5% the "usage too low" diagnostic, and every top
\* density from 0.5% to 5%, both bounds included, is awarded the 25 points.
C9_InclusiveBounds ==
    [][(spc = "keyword" /\ WordCount(content) > 0) =>
          /\ Above5 => Flagged(Stuffing)
          /\ Below05 => Flagged(TooLow)
          /\ (~Above5 /\ ~Below05) => Awarded]_vars

C9_Witness ==
    /\ spc = "return"
    /\ Exactly5
    /\ ~Contains(improvements, Stuffing)
    /\ ~Contains(improvements, TooLow)
    /\ seo_score \div 25 + Len(improvements) = Evaluated(content, 4)

\* C10: a present title shorter than 30 characters gets the "too short"
\* diagnostic and no points, one of 30 to 60 characters the 25 points and no
\* diagnostic, one longer than 60 the "too long" diagnostic and no points.
C10_TitleLength ==
    [][(spc = "title" /\ "title" \in DOMAIN content) =>
          /\ content["title"].len < 30 =>
                Flagged("Title is too short (< 30 characters)")
          /\ (30 <= content["title"].len /\ content["title"].len <= 60) => Awarded
          /\ content["title"].len > 60 =>
                Flagged("Title is too long (> 60 characters)")]_vars

C10_Witness ==
    /\ spc = "description"
    /\ "title" \in DOMAIN content
    /\ content["title"] = [kw |-> 1, fill |-> 0, len |-> 2]
    /\ seo_score = 0
    /\ improvements = <<"Title is too short (< 30 characters)">>

---------------------------------------------------------------------------
(* Claims about ContentOptimizer._count_syllables *)

Vowelish(c) == c \in {"a", "e", "i", "o", "u", "y", "A", "E"}

\* the maximal runs of vowels of a word: the positions where a run starts
VowelGroups(w) ==
    Cardinality({j \in 1..Len(w) :
                    Vowelish(w[j]) /\ (j = 1 \/ ~Vowelish(w[j - 1]))})

EndsInE(w) == Len(w) > 0 /\ w[Len(w)] \in {"e", "E"}

\* C11: _count_syllables returns max(1, g - e), g the number of maximal
\* runs of vowels of the lower-cased word and e = 1 when it ends in "e";
\* the result is at least 1, also for the empty word and a word without
\* vowels.
C11_SyllableCount ==
    sylpc = "done" =>
        LET g == VowelGroups(word)
            e == IF EndsInE(word) THEN 1 ELSE 0
        IN  /\ count = (IF g - e > 1 THEN g - e ELSE 1)
            /\ count >= 1

C11_Witness ==
    /\ sylpc = "done"
    /\ VowelGroups(word) = 1
    /\ EndsInE(word)
    /\ Len(word) >= 2
    /\ count = 1

---------------------------------------------------------------------------
(* Claims about SentimentAnalyzer *)

\* the comments were collected without a fetch error and scoring was started
Aggregated ==
    /\ sapc \in {"raised", "topics", "compile", "topic_sentiment", "done"}
    /\ "error" \notin DOMAIN sa_results

\* the run returned its results dict
Returned == sapc = "done" /\ "error" \notin DOMAIN sa_results

\* C12: on an empty list of comments the analysis raises nothing and
\* returns zero counts, zero or empty aggregates, an empty topic map and an
\* empty topic-sentiment map.
C12_EmptyListReportsZeros ==
    (Aggregated /\ comments_data = <<>>) =>
        /\ sapc # "raised"
        /\ sapc = "done" =>
            /\ sa_results.engagement_metrics.total_comments = 0
            /\ sa_results.overall_sentiment.average_polarity = Zero
            /\ sa_results.overall_sentiment.average_subjectivity = Zero
            /\ sa_results.overall_sentiment.positive_percentage = Zero
            /\ DOMAIN sa_results.overall_sentiment.sentiment_distribution = {}
            /\ DOMAIN sa_results.temporal_analysis.sentiment_trend = {}
            /\ sa_results.key_themes.top_topics = <<>>
            /\ DOMAIN sa_results.key_themes.topic_sentiment = {}

\* the first 512 characters of a text
First512(text) == [k \in 1..(IF Len(text) > 512 THEN 512 ELSE Len(text)) |-> text[k]]

\* C13: every comment's record keeps the classifier's label and score for
\* the first 512 characters of its text next to the lexicon's polarity and
\* subjectivity for the whole text, and there is one record per comment, in
\* the order of the comments.
C13_TruncatedClassifierFullLexicon ==
    (Aggregated /\ sapc # "raised") =>
        /\ Len(sentiments) = Len(comments_data)
        /\ \A j \in 1..Len(comments_data) :
            LET text == comments_data[j].text
            IN  /\ sentiments[j].label = sentiment_analyzer(First512(text)).label
                /\ sentiments[j].score = sentiment_analyzer(First512(text)).score
                /\ sentiments[j].polarity = polarity(text)
                /\ sentiments[j].subjectivity = subjectivity(text)

C13_Witness ==
    /\ Returned
    /\ Len(comments_data) = 2
    /\ Len(comments_data[1].text) > 512
    /\ sentiments[1].label = "POSITIVE"
    /\ polarity(comments_data[1].text).n < 0
    /\ sentiments[1].polarity # polarity(First512(comments_data[1].text))
    /\ Len(comments_data[2].text) < 512

\* the phrase occurs in the text as a literal substring, ignoring case
LiteralIn(phrase, text) ==
    \E off \in 0..(Len(text) - Len(phrase)) :
        \A j \in 1..Len(phrase) :
            lower_char(phrase[j]) = lower_char(text[off + j])

\* C14: a top topic has a topic_sentiment entry exactly when some comment
\* contains the phrase as a case-insensitive literal substring, and the
\* entry is the mean polarity over exactly those comments.
C14_LiteralTopicAttribution ==
    Returned =>
        \A l \in 1..Len(sa_results.key_themes.top_topics) :
            LET topic == sa_results.key_themes.top_topics[l][1]
                hits == SelectSeq(comments_data,
                                  LAMBDA c : LiteralIn(topic, c.text))
                ts == sa_results.key_themes.topic_sentiment
            IN  /\ topic \in DOMAIN ts <=> hits # <<>>
                /\ hits # <<>> =>
                     ts[topic] = FMean([j \in 1..Len(hits) |->
                                           polarity(hits[j].text)])

\* the token is tagged as a noun or an adjective
TopicWord(w) == pos_tag(w) \in {"NN", "JJ"}

\* the maximal runs of noun/adjective tokens of one sentence, in order
MaximalRuns(sentence) ==
    LET tk == word_tokenize(sentence)
        starts == Ascending({a \in 1..Len(tk) :
                      TopicWord(tk[a]) /\ (a = 1 \/ ~TopicWord(tk[a - 1]))})
        stop(a) == CHOOSE b \in a..Len(tk) :
                      /\ b = Len(tk) \/ ~TopicWord(tk[b + 1])
                      /\ \A m \in a..b : TopicWord(tk[m])
    IN  [j \in 1..Len(starts) |-> join(SubSeq(tk, starts[j], stop(starts[j])))]

\* the sentences of the comments, comment by comment
Sentences ==
    Flatten([j \in 1..Len(comments_data) |->
                sent_tokenize(comments_data[j].text)])

Occurrences(t) == Cardinality({j \in 1..Len(topics) : topics[j] = t})

\* C20: the topics are exactly the maximal runs of noun/adjective tokens
\* of each sentence, joined by single spaces, in order of occurrence; no
\* topic is empty or holds another kind of token; the top topics are the
\* ten most frequent phrases of the whole corpus with their counts.
C20_TopicExtraction ==
    /\ (Aggregated /\ sapc \in {"compile", "topic_sentiment", "done"}) =>
        /\ topics = Flatten([j \in 1..Len(Sentences) |->
                                MaximalRuns(Sentences[j])])
        /\ \A j \in 1..Len(topics) :
            /\ topics[j] # <<>>
            /\ \A w \in {split(topics[j])[l] : l \in 1..Len(split(topics[j]))} :
                   TopicWord(w)
    /\ Returned =>
        LET top == sa_results.key_themes.top_topics
            distinct == {topics[j] : j \in 1..Len(topics)}
            kept == {top[l][1] : l \in 1..Len(top)}
        IN  /\ Len(top) = Min(10, Cardinality(distinct))
            /\ Cardinality(kept) = Len(top)
            /\ kept \subseteq distinct
            /\ \A l \in 1..Len(top) : top[l][2] = Occurrences(top[l][1])
            /\ \A t \in distinct \ kept, u \in kept :
                   Occurrences(t) <= Occurrences(u)

C20_Witness ==
    /\ Returned
    /\ Cardinality({topics[j] : j \in 1..Len(topics)}) > 10
    /\ Len(sa_results.key_themes.top_topics) = 10
    /\ sa_results.key_themes.top_topics[1] = <<Vocab.gem, 2>>
    /\ \E j \in 1..Len(topics) : topics[j] = <<"f", "o", "x">>
    /\ \A l \in 1..10 : sa_results.key_themes.top_topics[l][1] # <<"f", "o", "x">>

---------------------------------------------------------------------------
(* Claims about ChannelAnalyzer and CompetitorAnalyzer *)

\* the rows with views > 0
Viewed(rows) == SelectSeq(rows, LAMBDA v : v.views > 0)

\* no row has a negative count
NonNegative(rows) == \A j \in 1..Len(rows) : rows[j].views >= 0

\* the engagement rate of a row, from its counts
RateOf(v) == Rat((v.likes + v.comments) * 100, v.views)

MeanRate(rows) == FMean([j \in 1..Len(rows) |-> RateOf(rows[j])])

MeanViews(rows) == Rat(Sum([j \in 1..Len(rows) |-> rows[j].views]), Len(rows))

\* C15: a record with views = 0 has an absent engagement rate, neither
\* zero nor infinite, and stays out of the average engagement rate, which
\* is the mean over the records with views > 0; the record is still
\* counted in the record list and in the average views per video.
C15_ZeroViewsRateAbsent ==
    /\ (chpc = "done" /\ video_stats # <<>> /\ NonNegative(video_stats)) =>
        LET pm == ch_results.performance_metrics
        IN  /\ Len(pm.recent_videos) = Len(video_stats)
            /\ pm.avg_views_per_video = MeanViews(video_stats)
            /\ \A j \in 1..Len(video_stats) :
                 video_stats[j].views = 0 =>
                     pm.recent_videos[j].engagement_rate.k = "nan"
            /\ Viewed(video_stats) # <<>> =>
                 pm.avg_engagement_rate = MeanRate(Viewed(video_stats))
    /\ \A j \in 1..Len(cp_trace) :
        ("video_data" \in DOMAIN cp_trace[j]
            /\ NonNegative(cp_trace[j].video_data)
            /\ Viewed(cp_trace[j].video_data) # <<>>) =>
          cp_results.channel_comparisons[cp_trace[j].channel].avg_engagement_rate
              = MeanRate(Viewed(cp_trace[j].video_data))

\* the channels whose pass of the loop ended in the except clause
Raising == {cp_trace[j].channel :
               j \in {l \in 1..Len(cp_trace) : cp_trace[l].outcome = "raised"}}

Errors == IF "errors" \in DOMAIN cp_results THEN cp_results.errors ELSE EmptyDict

\* C16: CompetitorAnalyzer.run visits every channel of competitor_channels
\* in order; a channel whose processing raises is recorded under errors by
\* its id and by nothing else, and the channels after it are still
\* processed and still store their results.
C16_FailureDoesNotAbortBatch ==
    cppc # "idle" =>
        /\ Len(cp_trace) = cp_i
        /\ \A j \in 1..Len(cp_trace) :
               cp_trace[j].channel = competitor_channels[j]
        /\ cppc = "done" => Len(cp_trace) = Len(competitor_channels)
        /\ DOMAIN Errors = Raising
        /\ \A j \in 1..Len(cp_trace) :
               "video_data" \in DOMAIN cp_trace[j] =>
                   cp_trace[j].channel \in DOMAIN cp_results.channel_comparisons

C16_Witness ==
    /\ cppc = "done"
    /\ Len(cp_trace) = 3
    /\ cp_trace[1].outcome = "raised"
    /\ cp_trace[1].channel \in DOMAIN Errors
    /\ Errors[cp_trace[1].channel] = "HttpError"
    /\ cp_trace[2].outcome = "empty"
    /\ "video_data" \in DOMAIN cp_trace[3]
    /\ cp_trace[3].channel \in DOMAIN cp_results.channel_comparisons

\* a record with a negative count or a date that does not parse
Malformed(v) ==
    v.views < 0 \/ v.likes < 0 \/ v.comments < 0 \/ v.published_at = "n/a"

WellFormed(rows) == SelectSeq(rows, LAMBDA v : ~Malformed(v))

\* C17: a malformed record is reported as a validation failure of that
\* record, so it does not end the run, and it contributes to no reported
\* statistic: the record list, the best video and the averages are those
\* of the well-formed records.
C17_MalformedRecordRejected ==
    /\ (chpc = "raised" /\ \E j \in 1..Len(video_stats) :
                                 video_stats[j].published_at = "n/a")
          => ch_results.raised = "HttpError"
    /\ (chpc = "done" /\ video_stats # <<>>) =>
        LET pm == ch_results.performance_metrics
        IN  /\ \A j \in 1..Len(pm.recent_videos) : ~Malformed(pm.recent_videos[j])
            /\ ~Malformed(pm.best_performing_video)
            /\ WellFormed(video_stats) # <<>> =>
                 pm.avg_views_per_video = MeanViews(WellFormed(video_stats))

\* C18: an empty collection of video records raises nothing in the
\* aggregation and yields average views 0, average engagement rate 0, no
\* best video and an empty record list; in CompetitorAnalyzer a channel
\* without records gets no entry in any section of the results.
C18_EmptyCollectionYieldsZeros ==
    /\ (chpc \in {"compile", "done"} /\ video_stats = <<>>) => ch_df = <<>>
    /\ (chpc = "raised" /\ video_stats = <<>>) => ch_results.raised = "HttpError"
    /\ (chpc = "done" /\ video_stats = <<>>) =>
        LET pm == ch_results.performance_metrics
        IN  /\ pm.avg_views_per_video = Zero
            /\ pm.avg_engagement_rate = Zero
            /\ pm.best_performing_video = [none |-> TRUE]
            /\ pm.recent_videos = <<>>
    /\ \A j \in 1..Len(cp_trace) :
        cp_trace[j].outcome = "empty" =>
            /\ cp_trace[j].channel \notin DOMAIN Errors
            /\ \A section \in DOMAIN cp_results \ {"errors"} :
                   cp_trace[j].channel \notin DOMAIN cp_results[section]

C18_Witness ==
    /\ chpc = "done"
    /\ video_stats = <<>>
    /\ ch_results.performance_metrics.avg_engagement_rate = Zero
    /\ ch_results.performance_metrics.recent_videos = <<>>

---------------------------------------------------------------------------
(* Claims about ContentOptimizer.run *)

\* C19: two calls of ContentOptimizer.run on equal content return equal
\* result records, and the content is not changed by the calls.
C19_RunTwiceSameResult ==
    Len(run_results) >= 2 =>
        /\ run_results[1] = run_results[2]
        /\ run_results[2].optimized_content = run_content

---------------------------------------------------------------------------
(* Claims about the batch loop of TrendAnalyzer.run *)

\* the keywords handed to the provider so far, in the order of the calls
Requested == Flatten(payloads)

\* the least number of batches of BatchSize that hold n keywords
CeilBatches(n) == CHOOSE c \in 0..n : c * BatchSize >= n /\ (c = 0 \/ (c - 1) * BatchSize < n)

---------------------------------------------------------------------------
(* Claims about the collection loop of SentimentAnalyzer.run *)

\* C22: the collection loop never holds more than max_comments comments,
\* top-level comments and replies counted together, with or without
\* include_replies; so the analysis never receives more than max_comments.
C22_AtMostMaxComments ==
    Len(comments_data) <= MaxUnits

---------------------------------------------------------------------------
(* Claims about the outcome of a channel in CompetitorAnalyzer.run *)

\* the channel ids recorded under errors
Failed == IF "errors" \in DOMAIN cp_results THEN DOMAIN cp_results.errors ELSE {}

\* the five per-channel sections of the results
Sections ==
    {cp_results.channel_comparisons, cp_results.content_analysis,
     cp_results.top_performing_content, cp_results.upload_patterns,
     cp_results.engagement_metrics}

\* C23: the outcome of a channel is all-or-nothing: a channel id under
\* errors has no entry in any of the five per-channel sections, and a
\* channel id with an entry in one of the five sections has an entry in
\* all five and none under errors.
C23_AllOrNothing ==
    cppc = "done" =>
        \A c \in {competitor_channels[j] : j \in 1..Len(competitor_channels)} :
            /\ c \in Failed => \A s \in Sections : c \notin DOMAIN s
            /\ (\E s \in Sections : c \in DOMAIN s) =>
                   /\ \A s \in Sections : c \in DOMAIN s
                   /\ c \notin Failed

===========================================================================
